---- MODULE Spec2Model ----
(***************************************************************************)
(* A model of app.py of the Sotopia-Pi demo: the memoized profile store    *)
(* (get_sotopia_profiles), the dependent dropdown queries, the change      *)
(* handlers wired in sotopia_info_accordion and the chat turn (run_chat).  *)
(***************************************************************************)
EXTENDS Naturals, Sequences, FiniteSets, TLC

VARIABLES
    envFile,    \* the records of the environment profile file, in file order
    relFile,    \* the records of the relationship profile file, in file order
    cache,      \* functools.cache of get_sotopia_profiles: call key -> store instance
    stores,     \* the store instances built so far (index = instance identity)
    thr,        \* per caller of get_sotopia_profiles: where it is and what it got
    ui,         \* the Blocks page: component values, choices, phase
    pending,    \* change events dispatched by the page and not yet handled
    last,       \* the last query/handler call: its arguments and its outcome
    chat        \* the turn run_chat is handling

vars == <<envFile, relFile, cache, stores, thr, ui, pending, last, chat>>

None == "None"

\* An empty dict.
EmptyDict == [k \in {} |-> None]

(***************************************************************************)
(* Bounds of the model.                                                    *)
(***************************************************************************)
MaxEnvs  == 3      \* longest environment file
MaxEdges == 2      \* longest relationship file

(***************************************************************************)
(* The profile files.                                                      *)
(***************************************************************************)
\* Codenames in the order Python's str comparison gives them (sorted(...,
\* key=lambda x: x['codename'])): "barter" < "negotiation" < "negotiation_00001".
CodenameOrder == <<"barter", "negotiation", "negotiation_00001">>
Codenames == {CodenameOrder[i] : i \in 1..Len(CodenameOrder)}
CodenameRank(c) == CHOOSE i \in 1..Len(CodenameOrder) : CodenameOrder[i] = c

RelTypes == {"friend", "stranger"}
AgentIds == {"a1", "a2"}
EnvIdOf  == <<"e1", "e2", "e3", "e4", "e5">>

\* One line of agent_profiles.jsonl per agent.
AgentFile == <<[agent_id |-> "a1", name |-> "Ann", background |-> "bg-a1", personality |-> "pers-a1"],
               [agent_id |-> "a2", name |-> "Bob", background |-> "bg-a2", personality |-> "pers-a2"]>>

SeqsUpTo(S, n) == UNION {[1..k -> S] : k \in 0..n}
SeqRange(q) == {q[i] : i \in 1..Len(q)}
\* The ids of a list of (label, id) choices.
ChoiceIds(choices) == [i \in 1..Len(choices) |-> choices[i][2]]

\* Environment files: the i-th line carries the id EnvIdOf[i].
EnvLine(i, c, r) ==
    [env_id |-> EnvIdOf[i], codename |-> c, relationship |-> r,
     scenario |-> <<"scenario", EnvIdOf[i]>>,
     agent_goals |-> <<<<"goal0", EnvIdOf[i]>>, <<"goal1", EnvIdOf[i]>>>>]
EnvFilesOver(CS, RS, n) ==
    {[i \in 1..Len(s) |-> EnvLine(i, s[i][1], s[i][2])] : s \in SeqsUpTo(CS \X RS, n)}

EdgeLines == [relationship : RelTypes, agent1_id : AgentIds, agent2_id : AgentIds]
RelFiles(n) == SeqsUpTo(EdgeLines, n)

(***************************************************************************)
(* utils.Environment and utils.Agent: the objects built from a record.     *)
(***************************************************************************)
Environment(profile) ==
    [id |-> profile.env_id, codename |-> profile.codename, scenario |-> profile.scenario,
     agent_goals |-> profile.agent_goals, relationship |-> profile.relationship]

Agent(profile) ==
    [id |-> profile.agent_id, agent_id |-> profile.agent_id, name |-> profile.name,
     background |-> profile.background, personality |-> profile.personality]

(***************************************************************************)
(* get_sotopia_profiles, the body.                                         *)
(***************************************************************************)
\* "{:05d}".format(n): decimal digits, zero-padded on the left to width 5.
DigitChar == <<"0", "1", "2", "3", "4", "5", "6", "7", "8", "9">>
RECURSIVE Decimal(_)
Decimal(n) == IF n < 10 THEN DigitChar[n + 1] ELSE Decimal(n \div 10) \o DigitChar[(n % 10) + 1]
RECURSIVE ZeroPad(_, _)
ZeroPad(s, width) == IF Len(s) >= width THEN s ELSE ZeroPad("0" \o s, width)
PadWidth == 5
Format05d(n) == ZeroPad(Decimal(n), PadWidth)

\* "{}_{:05d}".format(codename, count)
SuffixedLabel(codename, count) == codename \o "_" \o Format05d(count)

\* sorted(data, key=lambda x: x['codename']): a stable sort.
RECURSIVE InsertByCodename(_, _)
InsertByCodename(sorted, x) ==
    IF sorted = << >> THEN <<x>>
    ELSE LET lst == sorted[Len(sorted)] IN
         IF CodenameRank(lst.codename) <= CodenameRank(x.codename)
         THEN Append(sorted, x)
         ELSE Append(InsertByCodename(SubSeq(sorted, 1, Len(sorted) - 1), x), lst)
RECURSIVE SortedByCodename(_)
SortedByCodename(data) ==
    IF data = << >> THEN << >>
    ELSE InsertByCodename(SortedByCodename(SubSeq(data, 1, Len(data) - 1)), data[Len(data)])

\* A variant that formats the count after its increment.
DisplayLabelCountAfter(profile, code_names_count) ==
    IF profile.codename \in DOMAIN code_names_count
    THEN SuffixedLabel(profile.codename, code_names_count[profile.codename] + 1)
    ELSE profile.codename

\* The label of one record, given the counts so far (lines 41-49).
DisplayLabel(profile, code_names_count) ==
    IF profile.codename \in DOMAIN code_names_count
    THEN SuffixedLabel(profile.codename, code_names_count[profile.codename])
    ELSE profile.codename

\* code_names_count[codename] += 1 on a defaultdict(int)
CountUp(code_names_count, c) ==
    IF c \in DOMAIN code_names_count
    THEN [code_names_count EXCEPT ![c] = @ + 1]
    ELSE [k \in DOMAIN code_names_count \cup {c} |->
            IF k = c THEN 1 ELSE code_names_count[k]]

\* The loop of lines 39-51 over the first n sorted records: the display list,
\* the environment dictionary and the counts.
RECURSIVE EnvLoop(_, _)
EnvLoop(sorted, n) ==
    IF n = 0
    THEN [environments |-> << >>, environment_dict |-> EmptyDict,
          code_names_count |-> EmptyDict]
    ELSE LET prev    == EnvLoop(sorted, n - 1)
             profile == sorted[n]
             env_obj == Environment(profile)
         IN [environments |->
                Append(prev.environments,
                       <<DisplayLabel(profile, prev.code_names_count), env_obj.id>>),
             environment_dict |->
                [k \in DOMAIN prev.environment_dict \cup {env_obj.id} |->
                    IF k = env_obj.id THEN env_obj ELSE prev.environment_dict[k]],
             code_names_count |-> CountUp(prev.code_names_count, profile.codename)]

\* agent_dict[agent_obj._id] = agent_obj for every line (lines 56-59).
AgentDict(data) ==
    [k \in {Agent(data[i]).id : i \in 1..Len(data)} |->
        Agent(data[CHOOSE i \in 1..Len(data) :
                     /\ Agent(data[i]).id = k
                     /\ \A j \in (i + 1)..Len(data) : Agent(data[j]).id # k])]

\* d[rel][key].append(val) on defaultdict(lambda: defaultdict(list)).
DDAppend(d, rel, key, val) ==
    LET inner  == IF rel \in DOMAIN d THEN d[rel] ELSE EmptyDict
        lst    == IF key \in DOMAIN inner THEN inner[key] ELSE << >>
        inner2 == [k \in DOMAIN inner \cup {key} |->
                      IF k = key THEN Append(lst, val) ELSE inner[k]]
    IN [r \in DOMAIN d \cup {rel} |-> IF r = rel THEN inner2 ELSE d[r]]

\* A variant that indexes every edge under agent1_id only.
RECURSIVE RelLoopOneWay(_, _)
RelLoopOneWay(data, n) ==
    IF n = 0 THEN EmptyDict
    ELSE DDAppend(RelLoopOneWay(data, n - 1), data[n].relationship,
                  data[n].agent1_id, data[n].agent2_id)

\* The loop of lines 65-67 over the first n relationship records.
RECURSIVE RelLoop(_, _)
RelLoop(data, n) ==
    IF n = 0 THEN EmptyDict
    ELSE LET profile == data[n]
             d1 == DDAppend(RelLoop(data, n - 1), profile.relationship,
                            profile.agent1_id, profile.agent2_id)
         IN DDAppend(d1, profile.relationship, profile.agent2_id, profile.agent1_id)

\* Lines 33-69: the four values the body returns.
ProfilesBody(envData, agentData, relData) ==
    LET loop == EnvLoop(SortedByCodename(envData), Len(envData))
    IN [environments      |-> loop.environments,
        environment_dict  |-> loop.environment_dict,
        agent_dict        |-> AgentDict(agentData),
        relationship_dict |-> RelLoop(relData, Len(relData))]

(***************************************************************************)
(* get_sotopia_profiles behind functools.cache (line 31).                  *)
(***************************************************************************)
ENVIRONMENT_PROFILES  == "profiles/environment_profiles.jsonl"
AGENT_PROFILES        == "profiles/agent_profiles.jsonl"
RELATIONSHIP_PROFILES == "profiles/relationship_profiles.jsonl"

\* The two ways of calling with the same three paths: get_sotopia_profiles() and
\* get_sotopia_profiles(ENVIRONMENT_PROFILES, AGENT_PROFILES, RELATIONSHIP_PROFILES).
CallForms == {"defaults", "explicit"}
Callers   == {"main", "worker"}

\* The arguments as passed: what functools.cache makes its key from.
PassedArgs(form) ==
    IF form = "defaults" THEN << >>
    ELSE <<ENVIRONMENT_PROFILES, AGENT_PROFILES, RELATIONSHIP_PROFILES>>

\* The paths the body opens: a parameter left out takes its default (line 32).
SourcePaths(form) == <<ENVIRONMENT_PROFILES, AGENT_PROFILES, RELATIONSHIP_PROFILES>>

CacheKey(form) == PassedArgs(form)

IdleCaller == [pc |-> "idle", form |-> None, ret |-> 0]

\* A caller enters the cached function: a hit returns the cached instance, a miss
\* starts the body (the cache holds no lock while the body runs).
Call(c, form) ==
    /\ thr[c].pc = "idle"
    /\ IF CacheKey(form) \in DOMAIN cache
       THEN thr' = [thr EXCEPT ![c] = [pc |-> "idle", form |-> form,
                                       ret |-> cache[CacheKey(form)]]]
       ELSE thr' = [thr EXCEPT ![c] = [pc |-> "body", form |-> form, ret |-> 0]]
    /\ UNCHANGED <<envFile, relFile, cache, stores, ui, pending, last, chat>>

\* The body returns: its result is a new instance, stored under the call's key
\* and returned to this caller.
BodyReturn(c) ==
    /\ thr[c].pc = "body"
    /\ stores' = Append(stores, ProfilesBody(envFile, AgentFile, relFile))
    /\ cache' = [k \in DOMAIN cache \cup {CacheKey(thr[c].form)} |->
                    IF k = CacheKey(thr[c].form) THEN Len(stores) + 1 ELSE cache[k]]
    /\ thr' = [thr EXCEPT ![c] = [pc |-> "idle", form |-> thr[c].form,
                                   ret |-> Len(stores) + 1]]
    /\ UNCHANGED <<envFile, relFile, ui, pending, last, chat>>

NoUI   == [phase |-> "none"]
NoLast == [op |-> None]
NoChat == [pc |-> "idle"]

InitLoad ==
    /\ envFile \in EnvFilesOver(Codenames, {"friend"}, MaxEnvs)
    /\ relFile = <<[relationship |-> "friend", agent1_id |-> "a1", agent2_id |-> "a2"]>>
    /\ cache = EmptyDict
    /\ stores = << >>
    /\ thr = [c \in Callers |-> IdleCaller]
    /\ ui = NoUI
    /\ pending = {}
    /\ last = NoLast
    /\ chat = NoChat

NextLoad ==
    \/ \E c \in Callers, form \in CallForms : Call(c, form)
    \/ \E c \in Callers : BodyReturn(c)

SpecLoad == InitLoad /\ [][NextLoad]_vars

(***************************************************************************)
(* The queries behind the dropdowns and the info boxes (lines 119-158).    *)
(* Each returns [raised, ..., rd]: rd is the relationship index as the     *)
(* call leaves it (a read of a missing key of a defaultdict inserts it).   *)
(***************************************************************************)
\* relationship_dict[rel]: the inner dict, inserted empty when missing.
OuterGet(rd, rel) ==
    IF rel \in DOMAIN rd THEN rd
    ELSE [r \in DOMAIN rd \cup {rel} |-> IF r = rel THEN EmptyDict ELSE rd[r]]

\* relationship_dict[rel][key]: the list, inserted empty when missing.
InnerGet(rd, rel, key) ==
    LET rd1 == OuterGet(rd, rel) IN
    IF key \in DOMAIN rd1[rel] THEN rd1
    ELSE [rd1 EXCEPT ![rel] = [k \in DOMAIN rd1[rel] \cup {key} |->
                                   IF k = key THEN << >> ELSE rd1[rel][k]]]

KeyError(rd) == [raised |-> TRUE, error |-> "KeyError", rd |-> rd]

\* The orders in which a set can be iterated (for x in unique_agent_ids).
SetOrders(S) ==
    {o \in [1..Cardinality(S) -> S] : \A i, j \in 1..Cardinality(S) : o[i] = o[j] => i = j}

\* gr.Dropdown(choices=l, value=l[0][1] if l else None)
Dropdown(choices, rd) ==
    [raised |-> FALSE, choices |-> choices,
     value |-> IF choices # << >> THEN choices[1][2] ELSE None, rd |-> rd]

\* Lines 119-130; order is the iteration order of the set unique_agent_ids.
create_user_agent_dropdown(store, environment_id, order) ==
    IF environment_id \notin DOMAIN store.environment_dict
    THEN KeyError(store.relationship_dict)
    ELSE LET environment == store.environment_dict[environment_id]
             rd == OuterGet(store.relationship_dict, environment.relationship)
         IN IF \E i \in 1..Len(order) : order[i] \notin DOMAIN store.agent_dict
            THEN KeyError(rd)
            ELSE Dropdown([i \in 1..Len(order) |->
                              <<store.agent_dict[order[i]].name, order[i]>>], rd)

\* The keys create_user_agent_dropdown collects into unique_agent_ids.
UniqueAgentIds(store, environment_id) ==
    IF environment_id \notin DOMAIN store.environment_dict THEN {}
    ELSE DOMAIN OuterGet(store.relationship_dict,
                         store.environment_dict[environment_id].relationship)
                  [store.environment_dict[environment_id].relationship]

\* Lines 132-140.
create_bot_agent_dropdown(store, environment_id, user_agent_id) ==
    IF \/ environment_id \notin DOMAIN store.environment_dict
       \/ user_agent_id \notin DOMAIN store.agent_dict
    THEN KeyError(store.relationship_dict)
    ELSE LET environment == store.environment_dict[environment_id]
             user_agent  == store.agent_dict[user_agent_id]
             rd == InnerGet(store.relationship_dict, environment.relationship,
                            user_agent.agent_id)
             neighbors == rd[environment.relationship][user_agent.agent_id]
         IN IF \E i \in 1..Len(neighbors) : neighbors[i] \notin DOMAIN store.agent_dict
            THEN KeyError(rd)
            ELSE Dropdown([i \in 1..Len(neighbors) |->
                              <<store.agent_dict[neighbors[i]].name, neighbors[i]>>], rd)

Textbox(text, rd) == [raised |-> FALSE, value |-> text, rd |-> rd]

\* Lines 142-146.
create_environment_info(store, environment_dropdown) ==
    IF environment_dropdown \notin DOMAIN store.environment_dict
    THEN KeyError(store.relationship_dict)
    ELSE Textbox(store.environment_dict[environment_dropdown].scenario,
                 store.relationship_dict)

\* Lines 148-152: f"{background} {personality} \n {agent_goals[0]}"
create_user_info(store, environment_dropdown, user_agent_dropdown) ==
    IF \/ environment_dropdown \notin DOMAIN store.environment_dict
       \/ user_agent_dropdown \notin DOMAIN store.agent_dict
    THEN KeyError(store.relationship_dict)
    ELSE LET environment == store.environment_dict[environment_dropdown]
             user_agent  == store.agent_dict[user_agent_dropdown]
         IN Textbox(<<user_agent.background, user_agent.personality,
                      environment.agent_goals[1]>>, store.relationship_dict)

\* Lines 154-158: f"{background} {personality} \n {agent_goals[1]}"
create_bot_info(store, environment_dropdown, bot_agent_dropdown) ==
    IF \/ environment_dropdown \notin DOMAIN store.environment_dict
       \/ bot_agent_dropdown \notin DOMAIN store.agent_dict
    THEN KeyError(store.relationship_dict)
    ELSE LET environment == store.environment_dict[environment_dropdown]
             bot_agent   == store.agent_dict[bot_agent_dropdown]
         IN Textbox(<<bot_agent.background, bot_agent.personality,
                      environment.agent_goals[2]>>, store.relationship_dict)

\* The instance every query gets from get_sotopia_profiles() once it is cached.
Loaded   == CacheKey("defaults") \in DOMAIN cache
TheStore == stores[cache[CacheKey("defaults")]]

\* The store with its relationship index as a call left it.
StoresAfter(rd) ==
    [stores EXCEPT ![cache[CacheKey("defaults")]].relationship_dict = rd]

(***************************************************************************)
(* The queries called directly, with any arguments.                        *)
(***************************************************************************)
EnvArgs   == {EnvIdOf[i] : i \in 1..Len(envFile)}
AgentArgs == AgentIds

\* What the caller sees of an outcome: an exception, or the component returned.
Seen(res) ==
    IF res.raised THEN [raised |-> TRUE, error |-> res.error]
    ELSE IF "choices" \in DOMAIN res
         THEN [raised |-> FALSE, choices |-> res.choices, value |-> res.value]
         ELSE [raised |-> FALSE, value |-> res.value]

\* What a call leaves in "last": the call and its outcome.
Called(op, env, agent, res) ==
    [op |-> op, env |-> env, agent |-> agent, res |-> Seen(res)]

QueryUserAgents(env) ==
    /\ Loaded
    /\ \E order \in SetOrders(UniqueAgentIds(TheStore, env)) :
         LET res == create_user_agent_dropdown(TheStore, env, order) IN
         /\ stores' = StoresAfter(res.rd)
         /\ last' = Called("create_user_agent_dropdown", env, None, res)
    /\ UNCHANGED <<envFile, relFile, cache, thr, ui, pending, chat>>

QueryBotAgents(env, user) ==
    /\ Loaded
    /\ LET res == create_bot_agent_dropdown(TheStore, env, user) IN
         /\ stores' = StoresAfter(res.rd)
         /\ last' = Called("create_bot_agent_dropdown", env, user, res)
    /\ UNCHANGED <<envFile, relFile, cache, thr, ui, pending, chat>>

QueryEnvironmentInfo(env) ==
    /\ Loaded
    /\ LET res == create_environment_info(TheStore, env) IN
         /\ stores' = StoresAfter(res.rd)
         /\ last' = Called("create_environment_info", env, None, res)
    /\ UNCHANGED <<envFile, relFile, cache, thr, ui, pending, chat>>

QueryUserInfo(env, user) ==
    /\ Loaded
    /\ LET res == create_user_info(TheStore, env, user) IN
         /\ stores' = StoresAfter(res.rd)
         /\ last' = Called("create_user_info", env, user, res)
    /\ UNCHANGED <<envFile, relFile, cache, thr, ui, pending, chat>>

QueryBotInfo(env, bot) ==
    /\ Loaded
    /\ LET res == create_bot_info(TheStore, env, bot) IN
         /\ stores' = StoresAfter(res.rd)
         /\ last' = Called("create_bot_info", env, bot, res)
    /\ UNCHANGED <<envFile, relFile, cache, thr, ui, pending, chat>>

\* Relationship files of up to MaxEdges lines (self-edges included).
QueryRelFiles == RelFiles(MaxEdges)
\* One environment per relationship type.
TwoEnvFile == <<EnvLine(1, "negotiation", "friend"), EnvLine(2, "negotiation", "stranger")>>

\* The state after main's get_sotopia_profiles() (line 321).
LoadedInit ==
    /\ cache = [k \in {CacheKey("defaults")} |-> 1]
    /\ stores = <<ProfilesBody(envFile, AgentFile, relFile)>>
    /\ thr = [c \in Callers |->
                IF c = "main" THEN [pc |-> "idle", form |-> "defaults", ret |-> 1]
                ELSE IdleCaller]

InitQuery ==
    /\ envFile = TwoEnvFile
    /\ relFile \in QueryRelFiles
    /\ LoadedInit
    /\ ui = NoUI
    /\ pending = {}
    /\ last = NoLast
    /\ chat = NoChat

NextQuery ==
    \/ \E env \in EnvArgs : QueryUserAgents(env)
    \/ \E env \in EnvArgs, user \in AgentArgs : QueryBotAgents(env, user)
    \/ \E env \in EnvArgs : QueryEnvironmentInfo(env)
    \/ \E env \in EnvArgs, user \in AgentArgs : QueryUserInfo(env, user)
    \/ \E env \in EnvArgs, bot \in AgentArgs : QueryBotInfo(env, bot)

SpecQuery == InitQuery /\ [][NextQuery]_vars

(***************************************************************************)
(* run_chat (lines 216-253), a step per block of the function.             *)
(***************************************************************************)
MaxHistory == 1     \* longest history passed to run_chat
MaxPending == 1     \* the user acts while fewer than this many events are unhandled

ModelChoices == {"cmu-lti/sotopia-pi-mistral-7b-BC_SR", "mistralai/Mistral-7B-Instruct-v0.1",
                 "GPT3.5"}

\* prepare_model (lines 71-98) raises RuntimeError for any other name.
ModelSupported(model_name) ==
    model_name \in {"cmu-lti/sotopia-pi-mistral-7b-BC_SR", "mistralai/Mistral-7B-Instruct-v0.1"}

\* An argument of run_chat: a plain value (what a Dropdown hands to a handler:
\* an agent id or None) or an object whose .value is the agent of that id
\* (.value is None for the id None).
Plain(v)        == [kind |-> "plain", v |-> v]
Component(v)    == [kind |-> "component", v |-> v]
AgentOfId(a)    == Agent(AgentFile[CHOOSE i \in 1..Len(AgentFile) : AgentFile[i].agent_id = a])
\* x.value.name evaluates: x has a .value and that has a .name.
HasValueName(x) == x.kind = "component" /\ x.v \in AgentIds
ValueName(x)    == AgentOfId(x.v).name

\* utils.format_sotopia_prompt(message, history, instructions, user_name, bot_name)
format_sotopia_prompt(message, history, instructions, user_name, bot_name) ==
    [instructions |-> instructions,
     turns |-> [i \in 1..Len(history) |->
                   <<<<user_name, history[i][1]>>, <<bot_name, history[i][2]>>>>],
     current |-> <<user_name, message>>,
     next_speaker |-> bot_name]

\* The completions the model may produce: tokens, the reply between the
\* framing tokens "<reply>" and "</reply>" when there is one.
RawOutputs ==
    {<<"<reply>", "hello", "</reply>">>,
     <<" ", "<reply>", "fine", "</reply>", "Ann:">>,
     <<"<reply>", "</reply>">>,
     <<"hello">>,
     << >>}

\* utils.format_bot_message: the reply span with its framing removed; raises
\* when the text holds no reply span.
ReplySpans(raw) ==
    {<<i, j>> \in (1..Len(raw)) \X (1..Len(raw)) :
        /\ i < j /\ raw[i] = "<reply>" /\ raw[j] = "</reply>"
        /\ \A k \in (i + 1)..(j - 1) : raw[k] \notin {"<reply>", "</reply>"}}
RECURSIVE JoinTokens(_)
JoinTokens(toks) == IF toks = << >> THEN "" ELSE toks[1] \o JoinTokens(Tail(toks))
format_bot_message(raw) ==
    IF ReplySpans(raw) = {}
    THEN [raised |-> TRUE, error |-> "MalformedOutput"]
    ELSE LET span == CHOOSE sp \in ReplySpans(raw) :
                        \A other \in ReplySpans(raw) : sp[1] <= other[1]
         IN [raised |-> FALSE, value |-> JoinTokens(SubSeq(raw, span[1] + 1, span[2] - 1))]

\* range(5) of line 246
RetryLimit == 5

\* Lines 224-228 on the arguments in c: the names, the model, the prompt.
EnterRunChat(c) ==
    IF ~HasValueName(c.user_agent_dropdown) \/ ~HasValueName(c.bot_agent_dropdown)
    THEN [c EXCEPT !.pc = "raised", !.error = "AttributeError"]
    ELSE IF ~ModelSupported(c.model_selection)
    THEN [c EXCEPT !.pc = "raised", !.error = "RuntimeError"]
    ELSE [c EXCEPT !.pc = "generate",
                   !.prompt = format_sotopia_prompt(c.message, c.history, c.instructions,
                                  ValueName(c.user_agent_dropdown),
                                  ValueName(c.bot_agent_dropdown))]

\* A variant of the iteration below without the break of line 249.
AfterAttemptNoBreak(c) ==
    LET r == format_bot_message(c.text_output)
        n == Len(c.log) + 1
    IN IF r.raised
       THEN [c EXCEPT !.log = Append(@, "raised"),
                      !.pc = IF n < RetryLimit THEN "loop" ELSE "return"]
       ELSE [c EXCEPT !.log = Append(@, "ok"), !.output = r.value,
                      !.pc = IF n < RetryLimit THEN "loop" ELSE "return"]

\* One iteration of the loop of lines 246-252: a success assigns output and
\* breaks, an exception is printed and the loop goes on while iterations remain.
AfterAttempt(c) ==
    LET r == format_bot_message(c.text_output)
        n == Len(c.log) + 1
    IN IF r.raised
       THEN [c EXCEPT !.log = Append(@, "raised"),
                      !.pc = IF n < RetryLimit THEN "loop" ELSE "return"]
       ELSE [c EXCEPT !.log = Append(@, "ok"), !.output = r.value, !.pc = "return"]

\* A call of run_chat with its six arguments.
NewCall(message, history, instructions, ua, ba, model_selection) ==
    [pc |-> "called", message |-> message, history |-> history,
     instructions |-> instructions, user_agent_dropdown |-> ua,
     bot_agent_dropdown |-> ba, model_selection |-> model_selection,
     prompt |-> None, text_output |-> << >>, output |-> "", log |-> << >>,
     error |-> None, selected |-> [env |-> None, user |-> None, bot |-> None]]

ChatBusy == chat.pc \in {"called", "generate", "loop", "return"}

RunChatEnter ==
    /\ chat.pc = "called"
    /\ chat' = EnterRunChat(chat)
    /\ UNCHANGED <<envFile, relFile, cache, stores, thr, ui, pending, last>>

\* Lines 229-245: the model's completion, decoded; output = "".
RunChatGenerate ==
    /\ chat.pc = "generate"
    /\ \E raw \in RawOutputs :
         chat' = [chat EXCEPT !.pc = "loop", !.text_output = raw, !.output = ""]
    /\ UNCHANGED <<envFile, relFile, cache, stores, thr, ui, pending, last>>

RunChatAttempt ==
    /\ chat.pc = "loop"
    /\ chat' = AfterAttempt(chat)
    /\ UNCHANGED <<envFile, relFile, cache, stores, thr, ui, pending, last>>

\* Line 253: return output.
RunChatReturn ==
    /\ chat.pc = "return"
    /\ chat' = [chat EXCEPT !.pc = "done"]
    /\ UNCHANGED <<envFile, relFile, cache, stores, thr, ui, pending, last>>

(***************************************************************************)
(* run_chat called directly.                                               *)
(***************************************************************************)
Messages  == {"hi"}
Replies   == {"hello"}
Histories == SeqsUpTo(Messages \X Replies, MaxHistory)
DropdownArgs ==
    {Plain(a) : a \in AgentIds \cup {None}} \cup {Component(a) : a \in AgentIds \cup {None}}

CallRunChat ==
    /\ ~ChatBusy
    /\ \E message \in Messages, history \in Histories,
          ua \in DropdownArgs, ba \in DropdownArgs, model_selection \in ModelChoices :
         chat' = NewCall(message, history, "instructions", ua, ba, model_selection)
    /\ UNCHANGED <<envFile, relFile, cache, stores, thr, ui, pending, last>>

InitChat ==
    /\ envFile = TwoEnvFile
    /\ relFile = << >>
    /\ LoadedInit
    /\ ui = NoUI
    /\ pending = {}
    /\ last = NoLast
    /\ chat = NoChat

NextChat ==
    \/ CallRunChat
    \/ RunChatEnter
    \/ RunChatGenerate
    \/ RunChatAttempt
    \/ RunChatReturn

\* A call that has started runs on: the interpreter executes the function.
SpecChat ==
    /\ InitChat /\ [][NextChat]_vars
    /\ WF_vars(RunChatEnter) /\ WF_vars(RunChatGenerate)
    /\ WF_vars(RunChatAttempt) /\ WF_vars(RunChatReturn)

(***************************************************************************)
(* The page: chat_tab and sotopia_info_accordion (lines 160-198, 255-292). *)
(***************************************************************************)
\* utils.get_starter_prompt(user_agent, bot_agent, environment): the role
\* setup, the scenario, and each agent's background, personality and goal.
get_starter_prompt(user_agent, bot_agent, environment) ==
    [roles |-> <<user_agent.name, bot_agent.name>>,
     scenario |-> environment.scenario,
     user |-> <<user_agent.background, user_agent.personality, environment.agent_goals[1]>>,
     bot |-> <<bot_agent.background, bot_agent.personality, environment.agent_goals[2]>>]

Crashed(op, env, agent, res) ==
    [crashed |-> TRUE, ui |-> [phase |-> "crashed"], rd |-> res.rd,
     last |-> Called(op, env, agent, res)]

WithIndex(store, rd) == [store EXCEPT !.relationship_dict = rd]

\* Lines 171-185 and 259, in order; an exception in any of them ends the build.
Build(store, order) ==
    LET environments == store.environments
        env == IF environments # << >> THEN environments[1][2] ELSE None
        r1  == create_user_agent_dropdown(store, env, order)
    IN IF r1.raised THEN Crashed("create_user_agent_dropdown", env, None, r1)
       ELSE
       LET r2 == create_bot_agent_dropdown(WithIndex(store, r1.rd), env, r1.value)
       IN IF r2.raised THEN Crashed("create_bot_agent_dropdown", env, r1.value, r2)
          ELSE
          LET s3 == WithIndex(store, r2.rd)
              r3 == create_environment_info(s3, env)
              r4 == create_user_info(s3, env, r1.value)
              r5 == create_bot_info(s3, env, r2.value)
          IN IF r3.raised THEN Crashed("create_environment_info", env, None, r3)
             ELSE IF r4.raised THEN Crashed("create_user_info", env, r1.value, r4)
             ELSE IF r5.raised THEN Crashed("create_bot_info", env, r2.value, r5)
             ELSE [crashed |-> FALSE,
                   ui |-> [phase |-> "built",
                           model |-> "cmu-lti/sotopia-pi-mistral-7b-BC_SR",
                           env |-> env,
                           user |-> r1.value, userChoices |-> r1.choices,
                           bot |-> r2.value, botChoices |-> r2.choices,
                           scenarioInfo |-> r3.value, userInfo |-> r4.value,
                           botInfo |-> r5.value,
                           starter |-> get_starter_prompt(s3.agent_dict[r1.value],
                                           s3.agent_dict[r2.value],
                                           s3.environment_dict[env])],
                   rd |-> r2.rd,
                   last |-> Called("create_bot_info", env, r2.value, r5)]

FirstEnv(store) ==
    IF store.environments # << >> THEN store.environments[1][2] ELSE None

BuildUI ==
    /\ Loaded
    /\ ui.phase = "none"
    /\ \E order \in SetOrders(UniqueAgentIds(TheStore, FirstEnv(TheStore))) :
         LET b == Build(TheStore, order) IN
         /\ ui' = b.ui
         /\ stores' = StoresAfter(b.rd)
         /\ last' = b.last
    /\ UNCHANGED <<envFile, relFile, cache, thr, pending, chat>>

\* A change event dispatched with the values its inputs have on the page.
Ev(fn, env, agent) == [fn |-> fn, env |-> env, agent |-> agent]

\* The listeners of lines 188-196.
OnEnvironmentChange(env)   == {Ev("create_user_agent_dropdown", env, None),
                               Ev("create_environment_info", env, None)}
OnUserChange(env, user)    == {Ev("create_bot_agent_dropdown", env, user),
                               Ev("create_user_info", env, user)}
OnBotChange(env, bot)      == {Ev("create_bot_info", env, bot)}

\* The user picks another scenario, user agent or bot agent. (The model
\* dropdown has no listener; it keeps its initial value here.)
SelectScenario(env) ==
    /\ ui.phase = "built"
    /\ Cardinality(pending) < MaxPending
    /\ env \in SeqRange(ChoiceIds(TheStore.environments))
    /\ env # ui.env
    /\ ui' = [ui EXCEPT !.env = env]
    /\ pending' = pending \cup OnEnvironmentChange(env)
    /\ UNCHANGED <<envFile, relFile, cache, stores, thr, last, chat>>

SelectUser(user) ==
    /\ ui.phase = "built"
    /\ Cardinality(pending) < MaxPending
    /\ user \in SeqRange(ChoiceIds(ui.userChoices))
    /\ user # ui.user
    /\ ui' = [ui EXCEPT !.user = user]
    /\ pending' = pending \cup OnUserChange(ui.env, user)
    /\ UNCHANGED <<envFile, relFile, cache, stores, thr, last, chat>>

SelectBot(bot) ==
    /\ ui.phase = "built"
    /\ Cardinality(pending) < MaxPending
    /\ bot \in SeqRange(ChoiceIds(ui.botChoices))
    /\ bot # ui.bot
    /\ ui' = [ui EXCEPT !.bot = bot]
    /\ pending' = pending \cup OnBotChange(ui.env, bot)
    /\ UNCHANGED <<envFile, relFile, cache, stores, thr, last, chat>>

\* A handler runs and its return value updates its output component; a
\* dropdown whose value changed fires its own change listeners. A handler that
\* raised updates nothing.
HandleUserDropdown(h) ==
    /\ h \in pending /\ h.fn = "create_user_agent_dropdown"
    /\ \E order \in SetOrders(UniqueAgentIds(TheStore, h.env)) :
         LET res == create_user_agent_dropdown(TheStore, h.env, order) IN
         /\ stores' = StoresAfter(res.rd)
         /\ last' = Called(h.fn, h.env, h.agent, res)
         /\ IF res.raised
            THEN /\ ui' = ui
                 /\ pending' = pending \ {h}
            ELSE /\ ui' = [ui EXCEPT !.userChoices = res.choices, !.user = res.value]
                 /\ pending' = (pending \ {h}) \cup
                        (IF res.value # ui.user THEN OnUserChange(ui.env, res.value) ELSE {})
    /\ UNCHANGED <<envFile, relFile, cache, thr, chat>>

HandleBotDropdown(h) ==
    /\ h \in pending /\ h.fn = "create_bot_agent_dropdown"
    /\ LET res == create_bot_agent_dropdown(TheStore, h.env, h.agent) IN
         /\ stores' = StoresAfter(res.rd)
         /\ last' = Called(h.fn, h.env, h.agent, res)
         /\ IF res.raised
            THEN /\ ui' = ui
                 /\ pending' = pending \ {h}
            ELSE /\ ui' = [ui EXCEPT !.botChoices = res.choices, !.bot = res.value]
                 /\ pending' = (pending \ {h}) \cup
                        (IF res.value # ui.bot THEN OnBotChange(ui.env, res.value) ELSE {})
    /\ UNCHANGED <<envFile, relFile, cache, thr, chat>>

HandleEnvironmentInfo(h) ==
    /\ h \in pending /\ h.fn = "create_environment_info"
    /\ LET res == create_environment_info(TheStore, h.env) IN
         /\ stores' = StoresAfter(res.rd)
         /\ last' = Called(h.fn, h.env, h.agent, res)
         /\ ui' = IF res.raised THEN ui ELSE [ui EXCEPT !.scenarioInfo = res.value]
    /\ pending' = pending \ {h}
    /\ UNCHANGED <<envFile, relFile, cache, thr, chat>>

HandleUserInfo(h) ==
    /\ h \in pending /\ h.fn = "create_user_info"
    /\ LET res == create_user_info(TheStore, h.env, h.agent) IN
         /\ stores' = StoresAfter(res.rd)
         /\ last' = Called(h.fn, h.env, h.agent, res)
         /\ ui' = IF res.raised THEN ui ELSE [ui EXCEPT !.userInfo = res.value]
    /\ pending' = pending \ {h}
    /\ UNCHANGED <<envFile, relFile, cache, thr, chat>>

HandleBotInfo(h) ==
    /\ h \in pending /\ h.fn = "create_bot_info"
    /\ LET res == create_bot_info(TheStore, h.env, h.agent) IN
         /\ stores' = StoresAfter(res.rd)
         /\ last' = Called(h.fn, h.env, h.agent, res)
         /\ ui' = IF res.raised THEN ui ELSE [ui EXCEPT !.botInfo = res.value]
    /\ pending' = pending \ {h}
    /\ UNCHANGED <<envFile, relFile, cache, thr, chat>>

\* "Send": gr.ChatInterface calls run_chat with the message, the history and
\* the values of the additional inputs of lines 281-286; run_chat runs up to
\* its first exception (line 224, on plain values).
SubmitTurn ==
    /\ ui.phase = "built"
    /\ ~ChatBusy
    /\ \E message \in Messages :
         chat' = EnterRunChat(
                    [NewCall(message, << >>, ui.starter, Plain(ui.user), Plain(ui.bot),
                             ui.model)
                       EXCEPT !.selected = [env |-> ui.env, user |-> ui.user,
                                            bot |-> ui.bot]])
    /\ UNCHANGED <<envFile, relFile, cache, stores, thr, ui, pending, last>>

Events == [fn : {"create_user_agent_dropdown", "create_bot_agent_dropdown",
                 "create_environment_info", "create_user_info", "create_bot_info"},
           env : {EnvIdOf[i] : i \in 1..Len(envFile)},
           agent : AgentIds \cup {None}]

Init ==
    /\ envFile = TwoEnvFile
    /\ relFile \in RelFiles(MaxEdges)
    /\ LoadedInit
    /\ ui = NoUI
    /\ pending = {}
    /\ last = NoLast
    /\ chat = NoChat

Next ==
    \/ BuildUI
    \/ \E env \in EnvArgs : SelectScenario(env)
    \/ \E user \in AgentIds : SelectUser(user)
    \/ \E bot \in AgentIds : SelectBot(bot)
    \/ \E h \in Events : HandleUserDropdown(h)
    \/ \E h \in Events : HandleBotDropdown(h)
    \/ \E h \in Events : HandleEnvironmentInfo(h)
    \/ \E h \in Events : HandleUserInfo(h)
    \/ \E h \in Events : HandleBotInfo(h)
    \/ SubmitTurn

Spec == Init /\ [][Next]_vars

(***************************************************************************)
(* The display list (C1) and the memoization (C6).                         *)
(***************************************************************************)
\* The record of the environment file that carries an id.
RecordOfId(id) == envFile[CHOOSE i \in 1..Len(envFile) : envFile[i].env_id = id]

\* The positions of the display list whose entry is paired with a record
\* codenamed c, in list order.
RECURSIVE PositionsOf(_, _, _)
PositionsOf(environments, c, n) ==
    IF n = 0 THEN << >>
    ELSE IF RecordOfId(environments[n][2]).codename = c
         THEN Append(PositionsOf(environments, c, n - 1), n)
         ELSE PositionsOf(environments, c, n - 1)

\* codename_0000j written out, for j < 10.
ExpectedSuffixed(c, j) == c \o "_0000" \o DigitChar[j + 1]

DisplayListRight(environments) ==
    /\ Len(environments) = Len(envFile)
    /\ \A i \in 1..Len(envFile) :
          Cardinality({p \in 1..Len(environments) :
                          environments[p][2] = envFile[i].env_id}) = 1
    /\ \A p, q \in 1..Len(environments) :
          p < q => CodenameRank(RecordOfId(environments[p][2]).codename)
                     <= CodenameRank(RecordOfId(environments[q][2]).codename)
    /\ \A c \in Codenames :
          LET k   == Cardinality({i \in 1..Len(envFile) : envFile[i].codename = c})
              pos == PositionsOf(environments, c, Len(environments))
          IN /\ Len(pos) = k
             /\ \A j \in 1..k :
                   environments[pos[j]][1] =
                       IF j = 1 THEN c ELSE ExpectedSuffixed(c, j - 1)
             /\ \A j \in 2..k : Len(environments[pos[j]][1]) = Len(c) + 1 + 5
             /\ \A i, j \in 1..k :
                   i # j => environments[pos[i]][1] # environments[pos[j]][1]

\* C1: in every loaded store, each codename shared by k records has exactly k
\* entries in the display list, the first of them (in codename-sorted order)
\* labelled with the bare codename and the others codename_00001 ...
\* codename_<k-1>, pairwise distinct, each paired with the id of its own record;
\* two records codenamed "negotiation" give "negotiation", "negotiation_00001".
C1_DisplayLabels ==
    \A s \in 1..Len(stores) :
        /\ DisplayListRight(stores[s].environments)
        /\ (/\ Len(envFile) = 2
            /\ envFile[1].codename = "negotiation"
            /\ envFile[2].codename = "negotiation")
           => stores[s].environments =
                 <<<<"negotiation", envFile[1].env_id>>,
                   <<"negotiation_00001", envFile[2].env_id>>>>

\* C1's case: a loaded store whose file holds three records of one codename,
\* the last of them labelled codename_00002.
C1_Witness ==
    /\ Len(stores) > 0
    /\ \E c \in Codenames :
          /\ Cardinality({i \in 1..Len(envFile) : envFile[i].codename = c}) >= 3
          /\ \E p \in 1..Len(stores[1].environments) :
                /\ stores[1].environments[p][1] = c \o "_00002"
                /\ RecordOfId(stores[1].environments[p][2]).codename = c

\* C6: the body of get_sotopia_profiles runs at most once for the triple of
\* source paths, and every call with those paths, explicit or by default,
\* returns the same store instance.
C6_SingleLoadSameInstance ==
    /\ Len(stores) <= 1
    /\ \A c1, c2 \in Callers :
          (thr[c1].ret # 0 /\ thr[c2].ret # 0
             /\ SourcePaths(thr[c1].form) = SourcePaths(thr[c2].form))
          => thr[c1].ret = thr[c2].ret

(***************************************************************************)
(* The candidate lists (C2, C3) and the store's frame (C4), stated over    *)
(* the relationship file.                                                  *)
(***************************************************************************)
RelationshipOf(environment_id) == RecordOfId(environment_id).relationship

\* Per edge of type rel, in file order: the other endpoint when u is agent1,
\* then the other endpoint when u is agent2 (a self-edge on u gives u twice).
RECURSIVE Counterparts(_, _, _)
Counterparts(rel, u, n) ==
    IF n = 0 THEN << >>
    ELSE LET e == relFile[n] IN
         Counterparts(rel, u, n - 1)
            \o (IF e.relationship = rel /\ e.agent1_id = u THEN <<e.agent2_id>> ELSE << >>)
            \o (IF e.relationship = rel /\ e.agent2_id = u THEN <<e.agent1_id>> ELSE << >>)

\* Per edge of type rel that touches u, in file order: one entry, its other end.
RECURSIVE OnePerEdge(_, _, _)
OnePerEdge(rel, u, n) ==
    IF n = 0 THEN << >>
    ELSE LET e == relFile[n] IN
         OnePerEdge(rel, u, n - 1)
            \o (IF e.relationship = rel /\ (e.agent1_id = u \/ e.agent2_id = u)
                THEN <<IF e.agent1_id = u THEN e.agent2_id ELSE e.agent1_id>>
                ELSE << >>)

\* The agents that are an endpoint of an edge of type rel.
Endpoints(rel) ==
    {a \in AgentIds : \E i \in 1..Len(relFile) :
        /\ relFile[i].relationship = rel
        /\ a \in {relFile[i].agent1_id, relFile[i].agent2_id}}

BotCall  == last.op = "create_bot_agent_dropdown" /\ ~last.res.raised
UserCall == last.op = "create_user_agent_dropdown" /\ ~last.res.raised

\* C2, as stated: the bot candidates of (env, u) are the agents joined to u by
\* an edge of type env.relationship, in either direction, in edge order, with
\* one entry per edge.
C2_OneEntryPerEdge ==
    BotCall => ChoiceIds(last.res.choices)
                 = OnePerEdge(RelationshipOf(last.env), last.agent, Len(relFile))

\* C2, amended: the bot candidates of (env, u) are the agents joined to u by an
\* edge of type env.relationship, in either direction, in edge order, one entry
\* per edge except that a self-edge on u gives two entries; no agent without
\* such an edge is listed, and u itself only if it has a self-edge.
C2_BotCandidates ==
    BotCall =>
        LET rel == RelationshipOf(last.env)
            ids == ChoiceIds(last.res.choices)
        IN /\ ids = Counterparts(rel, last.agent, Len(relFile))
           /\ \A b \in SeqRange(ids) :
                \E i \in 1..Len(relFile) :
                    /\ relFile[i].relationship = rel
                    /\ {relFile[i].agent1_id, relFile[i].agent2_id} = {last.agent, b}
           /\ last.agent \in SeqRange(ids) =>
                \E i \in 1..Len(relFile) :
                    /\ relFile[i].relationship = rel
                    /\ relFile[i].agent1_id = last.agent
                    /\ relFile[i].agent2_id = last.agent
           /\ \A i \in 1..Len(ids) :
                last.res.choices[i] = <<TheStore.agent_dict[ids[i]].name, ids[i]>>
           /\ last.res.value = IF ids = << >> THEN None ELSE ids[1]

\* C2's case: a user agent with two edges of the environment's type, met once as
\* agent1 and once as agent2, and both counterparts listed in edge order.
C2_Witness ==
    /\ BotCall
    /\ Len(relFile) = 2
    /\ relFile[1].relationship = RelationshipOf(last.env)
    /\ relFile[2].relationship = RelationshipOf(last.env)
    /\ relFile[1].agent1_id = last.agent /\ relFile[1].agent2_id # last.agent
    /\ relFile[2].agent2_id = last.agent /\ relFile[2].agent1_id # last.agent
    /\ Len(last.res.choices) = 2

\* C3: whatever queries ran before, the user candidates of env are exactly the
\* distinct agents that are an endpoint of a loaded edge of type
\* env.relationship, none listed twice.
C3_UserCandidates ==
    UserCall =>
        /\ SeqRange(ChoiceIds(last.res.choices)) = Endpoints(RelationshipOf(last.env))
        /\ Len(last.res.choices) = Cardinality(Endpoints(RelationshipOf(last.env)))

\* C4: no query changes the store: the environment map, the agent map and the
\* relationship index (its relationship types, its endpoint keys per type)
\* are after every query what they were before it.
C4_StoreReadOnly == [][stores' = stores]_vars

(***************************************************************************)
(* The page's selection (C5, C9) and the turn's prompt (C10).              *)
(***************************************************************************)
DependentSteps == {"create_bot_agent_dropdown", "create_user_info", "create_bot_info"}

\* C5: for an environment whose relationship type has no edge, the user
\* candidates are empty and the selected user agent is None, and the dependent
\* steps run with that empty selection (at build time and on change events)
\* end without raising.
C5_EmptyRelationshipNoError ==
    (last.op # None /\ last.env # None /\ Endpoints(RelationshipOf(last.env)) = {}) =>
        /\ (last.op = "create_user_agent_dropdown" /\ ~last.res.raised)
              => (last.res.choices = << >> /\ last.res.value = None)
        /\ (last.op \in DependentSteps /\ last.agent = None) => ~last.res.raised

\* C9: once every change handler has run, the selected user agent is an
\* endpoint of an edge of the selected environment's relationship type (None
\* when there is none), the bot choices are that user agent's counterparts
\* under that type, and the selected bot agent is one of them (None when there
\* is none).
C9_SelectionConsistent ==
    (ui.phase = "built" /\ pending = {}) =>
        LET rel == RelationshipOf(ui.env)
            counterparts == IF ui.user = None THEN << >>
                            ELSE Counterparts(rel, ui.user, Len(relFile))
        IN /\ IF Endpoints(rel) = {} THEN ui.user = None ELSE ui.user \in Endpoints(rel)
           /\ ChoiceIds(ui.botChoices) = counterparts
           /\ IF counterparts = << >> THEN ui.bot = None
              ELSE ui.bot \in SeqRange(counterparts)

\* C10: the instructions a submitted turn's prompt is composed from are those
\* of the environment (scenario, both goals), the user agent and the bot agent
\* selected when the turn was submitted.
C10_PromptFromSelection ==
    (chat.pc # "idle" /\ chat.selected.env # None
       /\ chat.selected.user \in AgentIds /\ chat.selected.bot \in AgentIds) =>
        chat.instructions =
            get_starter_prompt(TheStore.agent_dict[chat.selected.user],
                               TheStore.agent_dict[chat.selected.bot],
                               TheStore.environment_dict[chat.selected.env])

(***************************************************************************)
(* The sanitization loop of run_chat (C7, C8).                             *)
(***************************************************************************)
\* C7: when format_bot_message raises on the completion, the turn does not
\* return a silent empty string as the bot's reply.
C7_NoSilentEmptyReply ==
    (chat.pc = "done" /\ format_bot_message(chat.text_output).raised) => chat.output # ""

InLoop == chat.pc \in {"loop", "return", "done"}

LoopOutcome ==
    /\ Len(chat.log) <= 5
    /\ \A i \in 1..Len(chat.log) : chat.log[i] = chat.log[1]
    /\ chat.pc = "loop" => (Len(chat.log) < 5 /\ \A i \in 1..Len(chat.log) : chat.log[i] = "raised")
    /\ chat.pc \in {"return", "done"} =>
         /\ Len(chat.log) >= 1
         /\ chat.log[1] = "ok" =>
              /\ Len(chat.log) = 1
              /\ chat.output = format_bot_message(chat.text_output).value
         /\ chat.log[1] = "raised" => (Len(chat.log) = 5 /\ chat.output = "")

\* C8: the loop calls format_bot_message at most 5 times on the same text, stops
\* at the first success with that call's result, gives up after the 5th
\* failure, every attempt ends as the first did, and the loop always ends.
C8_BoundedRetry ==
    /\ [](InLoop => LoopOutcome)
    /\ (chat.pc = "loop") ~> (chat.pc = "done")

\* C8's case: a turn that returned after five failed attempts.
C8_Witness ==
    /\ chat.pc = "done"
    /\ Len(chat.log) = 5
    /\ chat.log[5] = "raised"

====
